---- MODULE Spec2Model ----
(***************************************************************************)
(* suitcase-dataexchange: the Resource/Datum Remapper (src/migrate.py,     *)
(* class Migration) and the Structured Exporter                           *)
(* (src/suitcase/dataexchange/__init__.py, class Serializer).              *)
(*                                                                         *)
(* Part I models Migration: one action per document type delivered to      *)
(* Migration.__call__, each covering the handler and the trailing          *)
(* self.serializer(name, doc) of __call__.  The downstream serializer is   *)
(* the sequence `sent` of the (name, document) pairs it was called with.   *)
(* Python dicts are functions with a finite domain of keys; lists are      *)
(* sequences (Python index i is TLA+ index i + 1).                         *)
(***************************************************************************)
EXTENDS Integers, Sequences, FiniteSets, TLC

(* ---------------------------------------------------------------- bounds *)
\* Documents delivered to one Migration instance.
MaxDocs == 4
\* Entries of one datum page.
MaxPage == 2
\* Documents delivered to one Serializer instance.
MaxCalls == 6
\* Events of one event page.
MaxEvents == 3

(* ------------------------------------------------------- python helpers *)
NoDoc == <<>>

\* d[k] = v on a dict: adds the key or overwrites its value.
DictSet(d, k, v) == (k :> v) @@ d

Has(d, k) == k \in DOMAIN d

\* The sequences over S of length 0..n without a repeated element.
RECURSIVE DistinctSeqs(_, _)
DistinctSeqs(S, n) ==
    IF n = 0 THEN {<<>>}
    ELSE LET shorter == DistinctSeqs(S, n - 1)
             fresh == {p \in shorter \X S :
                          /\ Len(p[1]) = n - 1
                          /\ \A i \in 1..Len(p[1]) : p[1][i] # p[2]}
         IN shorter \cup {Append(p[1], p[2]) : p \in fresh}

(* ----------------------------------------------------- Part I: Migration *)
\* The constructor arguments of the script at the foot of migrate.py.
image_field == "Andor_image"
timestamp_field == "Andor_timestamp"

\* Inputs: uids of resource documents, datum ids, and the documents built
\* from them.  A datum page is a batch of datums, each identified by its
\* datum_id, so a page holds no datum id twice; the same resource document
\* or the same datum id may be delivered again in a later document.
ResUids == {"abc", "def"}
DatumIds == {"abc/0", "abc/1"}

ResourceDocs ==
    {[uid |-> r, spec |-> "AD_HDF5", root |-> "/data"] : r \in ResUids}
      \cup {[spec |-> "AD_HDF5", root |-> "/data"]}

DatumPageDocs ==
    {[resource |-> r, datum_id |-> ids] :
        r \in ResUids, ids \in DistinctSeqs(DatumIds, MaxPage)}

EventDocs ==
    {[data |-> (image_field :> d)] : d \in DatumIds}
      \cup {[data |-> (image_field :> d), filled |-> (image_field :> FALSE)] :
               d \in DatumIds}
      \cup {[data |-> ("zps_pi_r" :> 0)]}

DescriptorDocs ==
    {[name |-> "primary",
      data_keys |-> (image_field :> [dtype |-> "array", shape |-> <<10, 20, 5>>])],
     [name |-> "baseline",
      data_keys |-> ("zps_sx" :> [dtype |-> "number", shape |-> <<>>])]}

EventPageDocs == {[data |-> (image_field :> <<d>>)] : d \in DatumIds}

VARIABLES
    new_res_uids,   \* Migration.new_res_uids: original uid -> shadow uid
    new_datum_ids,  \* Migration.new_datum_ids: original datum id -> shadow id
    sent,           \* the (name, doc) pairs self.serializer was called with
    uuid_calls,     \* number of uuid.uuid4() calls made so far
    m_name,         \* name of the document last given to __call__
    m_arrived,      \* that document's content when it arrived
    m_doc,          \* that document object's content after __call__ ended
    m_raised,       \* the exception __call__ ended with, or "none"
    m_calls,        \* number of __call__ invocations so far
    minted,         \* history: the (original uid, shadow uid) pairs recorded
    m_inputs        \* history: the (name, doc) pairs __call__ was given, each
                    \* doc as the caller's object was left by its call

mvars == <<new_res_uids, new_datum_ids, sent, uuid_calls, m_name, m_arrived,
           m_doc, m_raised, m_calls, minted, m_inputs>>

VARIABLES
    output_file,      \* Serializer._output_file: NoFile, or dataset name -> content
    chunk_size,       \* Serializer._chunk_size, 0 until start sets it
    descriptor_uids,  \* Serializer._descriptor_uids: stream name -> descriptor uid
    img_shape,        \* Serializer._img_shape, <<>> until a primary descriptor
    baseline_added,   \* Serializer._baseline_added
    stream_count,     \* Serializer._stream_count: descriptor uid -> pages seen
    buffered_thetas,  \* Serializer._buffered_thetas
    theta_timestamps, \* Serializer._theta_timestamps
    image_timestamps, \* Serializer._image_timestamps
    s_name,           \* name of the document last given to the Serializer
    s_raised,         \* how that call ended: [exc, line], exc "none" on return
    s_calls,          \* number of documents given to the Serializer so far
    s_before,         \* history: output_file as it was before that call
    produced,         \* the producer: events emitted so far, per kind of stream
    declared,         \* the producer: uids of the descriptors emitted so far
    with_block,       \* the caller's `with Serializer(...)`: "inside" or "exited"
    manager_closes,   \* number of calls of self._manager.close() so far
    caller_raised,    \* how the with statement ended for its caller: [exc, line]
    shrinks           \* history: calls so far that left /exchange/data shorter

svars == <<output_file, chunk_size, descriptor_uids, img_shape, baseline_added,
           stream_count, buffered_thetas, theta_timestamps, image_timestamps,
           s_name, s_raised, s_calls, s_before, produced, declared,
           with_block, manager_closes, caller_raised, shrinks>>

vars == <<mvars, svars>>

\* A step of one component leaves the other component alone.
SerializerIdle == UNCHANGED svars
MigrationIdle == UNCHANGED mvars

\* str(uuid.uuid4()) at its n-th call: a value no earlier call returned and
\* no input document carries (122 random bits).
uuid4(n) == "U" \o ToString(n)

\* Migration.__init__.
MigrationInit ==
    /\ new_res_uids = <<>>
    /\ new_datum_ids = <<>>
    /\ sent = <<>>
    /\ uuid_calls = 0
    /\ m_name = "none"
    /\ m_arrived = NoDoc
    /\ m_doc = NoDoc
    /\ m_raised = "none"
    /\ m_calls = 0
    /\ minted = {}
    /\ m_inputs = <<>>

\* The script's loop `for name, doc in ...: migration(name, doc)` delivers
\* the next document only while no call has raised.
MigrationReady == m_raised = "none" /\ m_calls < MaxDocs /\ SerializerIdle

\* Bookkeeping of one __call__(name, doc): what arrived, what the caller's
\* object holds afterwards, how the call ended.
Called(name, doc, after, exc) ==
    /\ m_name' = name
    /\ m_arrived' = doc
    /\ m_doc' = after
    /\ m_raised' = exc
    /\ m_calls' = m_calls + 1
    /\ m_inputs' = Append(m_inputs, <<name, after>>)

\* A __call__ that forwards the document before it routes it to the
\* handler (lines 61 and 62 exchanged).
Forward_original_first(derived, name, doc) == sent \o <<<<name, doc>>>> \o derived

\* __call__ line 62: self.serializer(name, doc), after the handler's own
\* emissions `derived`; doc is the caller's object as the handler left it.
Forward(derived, name, doc) == sent \o derived \o <<<<name, doc>>>>

\* A resource() that leaves the copy's uid as it was (line 31 missing).
ResourceCopy_keeps_uid(doc, new_res_uid) == DictSet(doc, "spec", "AD_HDF5_TS")

\* resource(), lines 28-32: the shallow copy with its two keys overwritten.
ResourceCopy(doc, new_res_uid) ==
    DictSet(DictSet(doc, "uid", new_res_uid), "spec", "AD_HDF5_TS")

\* A resource() that writes the two keys into the caller's document
\* (resource_copy = doc) instead of into a copy.
ResourceOriginal_aliased(doc, new_res_uid) == ResourceCopy(doc, new_res_uid)

\* resource() leaves the caller's document as it was.
ResourceOriginal(doc, new_res_uid) == doc

Migration_resource(doc) ==
    /\ MigrationReady
    /\ IF ~Has(doc, "uid")
       THEN \* assert 'uid' in doc
            /\ Called("resource", doc, doc, "AssertionError")
            /\ UNCHANGED <<new_res_uids, new_datum_ids, sent, uuid_calls, minted>>
       ELSE LET new_res_uid == uuid4(uuid_calls + 1)
                after == ResourceOriginal(doc, new_res_uid)
            IN /\ uuid_calls' = uuid_calls + 1
               /\ new_res_uids' = DictSet(new_res_uids, doc["uid"], new_res_uid)
               /\ minted' = minted \cup {<<doc["uid"], new_res_uid>>}
               /\ sent' = Forward(<<<<"resource", ResourceCopy(doc, new_res_uid)>>>>,
                                  "resource", after)
               /\ Called("resource", doc, after, "none")
               /\ UNCHANGED new_datum_ids

\* A datum id numbered from 1 (enumerate(..., 1)).
NewDatumId_from_one(new_res_uid, i) == new_res_uid \o "/" \o ToString(i + 1)

\* datum_page(), line 40: f'{new_res_uid}/{i}', i the 0-based position.
NewDatumId(new_res_uid, i) == new_res_uid \o "/" \o ToString(i)

\* datum_page(), lines 37-41: the deep copy with every datum id replaced.
DatumPageCopy(doc, new_res_uid) ==
    [doc EXCEPT !.datum_id =
        [i \in 1..Len(doc.datum_id) |-> NewDatumId(new_res_uid, i - 1)]]

\* datum_page(), line 42, over the whole loop: every datum id of the page is
\* recorded with the id of its position (the last position, were an id to
\* occur twice); the other entries of the table are kept.
RecordDatums(table, ids, new_res_uid) ==
    LET here == {ids[i] : i \in 1..Len(ids)}
        last(d) == CHOOSE i \in 1..Len(ids) :
                      ids[i] = d /\ \A j \in (i + 1)..Len(ids) : ids[j] # d
    IN [d \in DOMAIN table \cup here |->
          IF d \in here THEN NewDatumId(new_res_uid, last(d) - 1) ELSE table[d]]

\* datum_page() works on a deep copy: the caller's page is as it was.
DatumPageOriginal(doc, new_res_uid) == doc

\* A lookup by dict.get(uid, uid): an unregistered resource keeps its uid.
ResourceLookup_default(table, uid) ==
    [exc |-> "none", value |-> IF Has(table, uid) THEN table[uid] ELSE uid]

\* datum_page(), line 38: new_res_uid = self.new_res_uids[doc['resource']];
\* a missing key raises KeyError.
ResourceLookup(table, uid) ==
    IF Has(table, uid)
    THEN [exc |-> "none", value |-> table[uid]]
    ELSE [exc |-> "KeyError", value |-> "None"]

Migration_datum_page(doc) ==
    /\ MigrationReady
    /\ IF ResourceLookup(new_res_uids, doc.resource).exc # "none"
       THEN \* the exception leaves datum_page() at line 38 and __call__ at
            \* line 61, before the serializer is called
            /\ Called("datum_page", doc, doc,
                      ResourceLookup(new_res_uids, doc.resource).exc)
            /\ UNCHANGED <<new_res_uids, new_datum_ids, sent, uuid_calls, minted>>
       ELSE LET new_res_uid == ResourceLookup(new_res_uids, doc.resource).value
                after == DatumPageOriginal(doc, new_res_uid)
            IN /\ new_datum_ids' = RecordDatums(new_datum_ids, doc.datum_id, new_res_uid)
               /\ sent' = Forward(<<<<"datum_page", DatumPageCopy(doc, new_res_uid)>>>>,
                                  "datum_page", after)
               /\ Called("datum_page", doc, after, "none")
               /\ UNCHANGED <<new_res_uids, uuid_calls, minted>>

\* A lookup by dict.get: a missing key yields None and no exception.
DatumLookup_get(table, datum_id) ==
    [exc |-> "none",
     value |-> IF Has(table, datum_id) THEN table[datum_id] ELSE "None"]

\* event(), line 49: new_datum_id = self.new_datum_ids[datum_id]; a missing
\* key raises KeyError.
DatumLookup(table, datum_id) ==
    IF Has(table, datum_id)
    THEN [exc |-> "none", value |-> table[datum_id]]
    ELSE [exc |-> "KeyError", value |-> "None"]

\* An event() that stores the original datum id under the shadow field.
EventAnnotated_same_id(doc, new_datum_id) ==
    [doc EXCEPT !.data = DictSet(@, timestamp_field, doc.data[image_field])]

\* event(), lines 50-52: the document after the in-place assignments.
EventAnnotated(doc, new_datum_id) ==
    LET with_ts == [doc EXCEPT !.data = DictSet(@, timestamp_field, new_datum_id)]
    IN IF Has(doc, "filled")
       THEN [with_ts EXCEPT !.filled = DictSet(@, timestamp_field, FALSE)]
       ELSE with_ts

Migration_event(doc) ==
    /\ MigrationReady
    /\ UNCHANGED <<new_res_uids, new_datum_ids, uuid_calls, minted>>
    /\ IF ~Has(doc.data, image_field)
       THEN /\ sent' = Forward(<<>>, "event", doc)
            /\ Called("event", doc, doc, "none")
       ELSE LET found == DatumLookup(new_datum_ids, doc.data[image_field])
                after == EventAnnotated(doc, found.value)
            IN IF found.exc # "none"
               THEN \* the exception leaves event() before line 50 and
                    \* __call__ before line 62
                    /\ sent' = sent
                    /\ Called("event", doc, doc, found.exc)
               ELSE /\ sent' = Forward(<<>>, "event", after)
                    /\ Called("event", doc, after, "none")

\* event_page(), line 55: raise NotImplementedError; __call__ is left at
\* line 61, before the serializer is called.
Migration_event_page(doc) ==
    /\ MigrationReady
    /\ Called("event_page", doc, doc, "NotImplementedError")
    /\ UNCHANGED <<new_res_uids, new_datum_ids, sent, uuid_calls, minted>>

\* descriptor(), lines 18-23: the document after the call.
DescriptorAnnotated(doc) ==
    IF Has(doc, "data_keys") /\ Has(doc.data_keys, image_field)
    THEN LET data_key == doc.data_keys[image_field]
             shape1 == SubSeq(data_key.shape, 1, IF Len(data_key.shape) = 0 THEN 0 ELSE 1)
         IN [doc EXCEPT !.data_keys =
                DictSet(@, timestamp_field, [data_key EXCEPT !.shape = shape1])]
    ELSE doc

Migration_descriptor(doc) ==
    /\ MigrationReady
    /\ LET after == DescriptorAnnotated(doc)
       IN /\ sent' = Forward(<<>>, "descriptor", after)
          /\ Called("descriptor", doc, after, "none")
    /\ UNCHANGED <<new_res_uids, new_datum_ids, uuid_calls, minted>>

\* start and stop: Migration defines no handler, the router's own does
\* nothing, and __call__ forwards the document.
OtherDocs == {<<"start", [uid |-> "r1"]>>, <<"stop", [run_start |-> "r1"]>>}

Migration_call_other(name, doc) ==
    /\ MigrationReady
    /\ sent' = Forward(<<>>, name, doc)
    /\ Called(name, doc, doc, "none")
    /\ UNCHANGED <<new_res_uids, new_datum_ids, uuid_calls, minted>>

MigrationNext ==
    \/ \E doc \in ResourceDocs : Migration_resource(doc)
    \/ \E doc \in DatumPageDocs : Migration_datum_page(doc)
    \/ \E doc \in EventDocs : Migration_event(doc)
    \/ \E doc \in EventPageDocs : Migration_event_page(doc)
    \/ \E doc \in DescriptorDocs : Migration_descriptor(doc)
    \/ \E nd \in OtherDocs : Migration_call_other(nd[1], nd[2])

(* --------------------------------------------------- Part II: Serializer *)
(***************************************************************************)
(* One action per document type delivered to Serializer.__call__.  The     *)
(* HDF5 file is a dict from dataset name to content.  A frame is one       *)
(* number (its pixels are never inspected by the code), so /exchange/data  *)
(* is the sequence of its rows and the (1, H, W) averages are fractions.   *)
(* The producer is an event-model run: start comes first and once, every   *)
(* descriptor has its own uid, an event page follows its descriptor and    *)
(* carries the fields of its stream, and each primary event holds a stack  *)
(* of chunk_size frames.  Frames, monitor samples and baseline readings    *)
(* are numbered in order of production, so any two of them differ.         *)
(***************************************************************************)
\* Largest chunk_size a start document declares.
MaxChunk == 2

None == "None"
\* nan, as the fraction 0/0.
NaN == <<0, 0>>
\* self._output_file = None: no file, told from every open file by its key.
NoFile == [None |-> TRUE]

Returned == [exc |-> "none", line |-> 0]
Raised(exc, line) == [exc |-> exc, line |-> line]

DATA == "/exchange/data"
DATA_DARK == "/exchange/data_dark"
DATA_WHITE == "/exchange/data_white"
THETA == "/exchange/theta"

RECURSIVE GCD(_, _)
GCD(a, b) == IF b = 0 THEN a ELSE GCD(b, a % b)

RECURSIVE SumSeq(_)
SumSeq(q) == IF q = <<>> THEN 0 ELSE q[1] + SumSeq(Tail(q))

\* A fraction num/den in lowest terms.
Frac(num, den) == LET g == GCD(num, den) IN <<num \div g, den \div g>>

\* np.mean(frames, axis=0, keepdims=True): the unweighted mean over the
\* leading axis; nan for no frames.
np_mean(frames) ==
    IF frames = <<>> THEN NaN ELSE Frac(SumSeq(frames), Len(frames))

\* q[-n:] of a Python list or the leading axis of a dataset, n >= 1.
LastN(q, n) == IF n >= Len(q) THEN q ELSE SubSeq(q, Len(q) - n + 1, Len(q))

\* q[:-n] of a Python list (what `del q[-n:]` leaves), n >= 1.
DropLastN(q, n) == IF n >= Len(q) THEN <<>> ELSE SubSeq(q, 1, Len(q) - n)

\* q[m:] of a Python list, m >= 0.
From(q, m) == IF m >= Len(q) THEN <<>> ELSE SubSeq(q, m + 1, Len(q))

(* the producer's documents *)
ChunkSizes == 1..MaxChunk

StartDocs ==
    {[uid |-> "r1", chunk_size |-> c] : c \in ChunkSizes} \cup {[uid |-> "r1"]}

ExporterDescriptors ==
    {[uid |-> "b1", name |-> "baseline", data_keys |-> ("zps_sx" :> [shape |-> <<>>])],
     [uid |-> "b2", name |-> "baseline", data_keys |-> ("zps_sx" :> [shape |-> <<>>])],
     [uid |-> "p1", name |-> "primary",
      data_keys |-> (image_field :> [shape |-> <<10, 20>>])],
     [uid |-> "p2", name |-> "primary",
      data_keys |-> (image_field :> [shape |-> <<10, 20>>])],
     [uid |-> "p3", name |-> "primary", data_keys |-> ("zps_sx" :> [shape |-> <<>>])],
     [uid |-> "m1", name |-> "zps_pi_r_monitor",
      data_keys |-> ("zps_pi_r" :> [shape |-> <<>>])],
     [uid |-> "m2", name |-> "zps_pi_r_monitor",
      data_keys |-> ("zps_pi_r" :> [shape |-> <<>>])],
     [uid |-> "o1", name |-> "other", data_keys |-> ("det" :> [shape |-> <<>>])]}

DescriptorUids == {d.uid : d \in ExporterDescriptors}

DescriptorOf(uid) == CHOOSE d \in ExporterDescriptors : d.uid = uid

\* The n-th stack of c frames the detector acquires (n >= 1): frames
\* c(n-1)+1 .. cn.
Image(n, c) == [j \in 1..c |-> c * (n - 1) + j]

\* The event page of k events the stream of descriptor uid emits next.
PageOf(uid, k) ==
    LET name == DescriptorOf(uid).name
    IN IF name = "primary"
       THEN [descriptor |-> uid,
             data |-> (image_field :>
                 [i \in 1..k |-> Image(produced.primary + i, chunk_size)]),
             timestamps |-> (image_field :>
                 [i \in 1..k |-> 10 * (produced.primary + i)])]
       ELSE IF name = "zps_pi_r_monitor"
       THEN [descriptor |-> uid,
             data |-> ("zps_pi_r" :> [i \in 1..k |-> 3 * (produced.monitor + i)]),
             timestamps |-> ("zps_pi_r" :> [i \in 1..k |-> 7 * (produced.monitor + i)])]
       ELSE IF name = "baseline"
       THEN [descriptor |-> uid,
             data |-> [zps_sx |-> [i \in 1..k |-> 100 * (produced.baseline + i) + 1],
                       zps_sy |-> [i \in 1..k |-> 100 * (produced.baseline + i) + 2],
                       zps_sz |-> [i \in 1..k |-> 100 * (produced.baseline + i) + 3],
                       zps_pi_r |-> [i \in 1..k |-> 100 * (produced.baseline + i) + 4]],
             timestamps |-> ("zps_sx" :> [i \in 1..k |-> produced.baseline + i])]
       ELSE [descriptor |-> uid,
             data |-> ("det" :> [i \in 1..k |-> 0]),
             timestamps |-> ("det" :> [i \in 1..k |-> 0])]

\* The kind of stream the descriptor uid declares.
KindOf(uid) ==
    LET name == DescriptorOf(uid).name
    IN IF name = "zps_pi_r_monitor" THEN "monitor" ELSE name

\* Serializer.__init__.
SerializerInit ==
    /\ output_file = NoFile
    /\ chunk_size = 0
    /\ descriptor_uids = <<>>
    /\ img_shape = <<>>
    /\ baseline_added = FALSE
    /\ stream_count = <<>>
    /\ buffered_thetas = <<>>
    /\ theta_timestamps = <<>>
    /\ image_timestamps = <<>>
    /\ s_name = "none"
    /\ s_raised = Returned
    /\ s_calls = 0
    /\ s_before = NoFile
    /\ produced = [primary |-> 0, monitor |-> 0, baseline |-> 0, other |-> 0]
    /\ declared = {}
    /\ with_block = "inside"
    /\ manager_closes = 0
    /\ caller_raised = Returned
    /\ shrinks = 0

\* export()'s loop `for item in gen: serializer(*item)`, inside the with
\* block, delivers the next document only while no call has raised.
SerializerReady ==
    /\ with_block = "inside"
    /\ s_raised.exc = "none"
    /\ s_calls < MaxCalls
    /\ MigrationIdle

Started == output_file # NoFile

\* dataset.shape[0] of /exchange/data in the file, 0 while it holds none.
RowCount(file) == IF Has(file, DATA) THEN Len(file[DATA]) ELSE 0

\* Bookkeeping of one call serializer(name, doc), once the call's effect
\* on the file is known.
Delivered(name, outcome) ==
    /\ s_name' = name
    /\ s_raised' = outcome
    /\ s_calls' = s_calls + 1
    /\ s_before' = output_file
    /\ shrinks' = IF RowCount(output_file') < RowCount(output_file)
                  THEN shrinks + 1 ELSE shrinks
    /\ UNCHANGED <<with_block, manager_closes, caller_raised>>

\* start(), lines 225-232.
Serializer_start(doc) ==
    /\ SerializerReady
    /\ ~Started
    /\ output_file' = <<>>
    /\ IF Has(doc, "chunk_size")
       THEN chunk_size' = doc.chunk_size /\ Delivered("start", Returned)
       ELSE chunk_size' = chunk_size /\ Delivered("start", Raised("KeyError", 232))
    /\ UNCHANGED <<descriptor_uids, img_shape, baseline_added, stream_count,
                   buffered_thetas, theta_timestamps, image_timestamps,
                   produced, declared>>

\* A primary branch that replaces the three arrays when they exist
\* (`del self._output_file[name]` before each create_dataset).
DescriptorPrimary_recreating(doc) ==
    IF ~Has(doc.data_keys, image_field)
    THEN [uids |-> DictSet(descriptor_uids, "primary", doc.uid),
          shape |-> img_shape, file |-> output_file,
          outcome |-> Raised("KeyError", 248)]
    ELSE [uids |-> DictSet(descriptor_uids, "primary", doc.uid),
          shape |-> <<doc.data_keys[image_field].shape[2],
                      doc.data_keys[image_field].shape[1]>>,
          file |-> DictSet(DictSet(DictSet(output_file,
                       DATA_WHITE, <<0, 1>>), DATA_DARK, <<0, 1>>), DATA, <<>>),
          outcome |-> Returned]

\* descriptor(), lines 246-259: the primary branch.  The result is the new
\* _descriptor_uids, _img_shape and file, and how the call ended.
DescriptorPrimary(doc) ==
    LET uids == DictSet(descriptor_uids, "primary", doc.uid)
    IN IF ~Has(doc.data_keys, image_field)
       THEN [uids |-> uids, shape |-> img_shape, file |-> output_file,
             outcome |-> Raised("KeyError", 248)]
       ELSE LET shape == doc.data_keys[image_field].shape
                swapped == <<shape[2], shape[1]>>
            IN IF Has(output_file, DATA_WHITE)
               THEN \* h5py refuses to create a dataset whose name exists
                    [uids |-> uids, shape |-> swapped, file |-> output_file,
                     outcome |-> Raised("ValueError", 250)]
               ELSE [uids |-> uids, shape |-> swapped,
                     file |-> DictSet(DictSet(DictSet(output_file,
                                  DATA_WHITE, <<0, 1>>), DATA_DARK, <<0, 1>>),
                                  DATA, <<>>),
                     outcome |-> Returned]

\* descriptor(), lines 260-265: the monitor branch.
DescriptorMonitor(doc) ==
    LET uids == DictSet(descriptor_uids, "zps_pi_r_monitor", doc.uid)
    IN IF Has(output_file, THETA)
       THEN [uids |-> uids, shape |-> img_shape, file |-> output_file,
             outcome |-> Raised("ValueError", 262)]
       ELSE [uids |-> uids, shape |-> img_shape,
             file |-> DictSet(output_file, THETA, <<>>), outcome |-> Returned]

\* descriptor(), lines 243-244 and the fall-through for other names.
DescriptorOther(doc) ==
    [uids |-> IF doc.name = "baseline"
              THEN DictSet(descriptor_uids, "baseline", doc.uid)
              ELSE descriptor_uids,
     shape |-> img_shape, file |-> output_file, outcome |-> Returned]

Serializer_descriptor(doc) ==
    /\ SerializerReady
    /\ Started
    /\ doc.uid \notin declared
    /\ declared' = declared \cup {doc.uid}
    /\ LET r == IF doc.name = "primary" THEN DescriptorPrimary(doc)
                ELSE IF doc.name = "zps_pi_r_monitor" THEN DescriptorMonitor(doc)
                ELSE DescriptorOther(doc)
       IN /\ descriptor_uids' = r.uids
          /\ img_shape' = r.shape
          /\ output_file' = r.file
          /\ Delivered("descriptor", r.outcome)
    /\ UNCHANGED <<chunk_size, baseline_added, stream_count, buffered_thetas,
                   theta_timestamps, image_timestamps, produced>>

\* dict.get(key): None for a missing key.
Get(d, k) == IF Has(d, k) THEN d[k] ELSE None

\* event_page(), lines 312-313, once: the dataset grows by chunk_size rows
\* (zero-filled), and its last chunk_size rows are assigned the image.
AppendImage(rows, image, c) ==
    LET grown == rows \o [j \in 1..c |-> 0]
    IN [j \in 1..Len(grown) |->
          IF j > Len(grown) - c THEN image[j - (Len(grown) - c)] ELSE grown[j]]

\* event_page(), lines 311-313: the loop over the images.
RECURSIVE AppendImages(_, _, _)
AppendImages(rows, images, c) ==
    IF images = <<>> THEN rows
    ELSE AppendImages(AppendImage(rows, images[1], c), Tail(images), c)

\* event_page(), lines 281-290: the first page of the baseline stream.
PageBaseline(doc) ==
    IF Len(doc.data["zps_sx"]) = 0
    THEN [file |-> output_file, added |-> baseline_added,
          outcome |-> Raised("IndexError", 282)]
    ELSE [file |-> DictSet(DictSet(DictSet(DictSet(output_file,
                       "x_ini", doc.data["zps_sx"][1]),
                       "y_ini", doc.data["zps_sy"][1]),
                       "z_ini", doc.data["zps_sz"][1]),
                       "r_ini", doc.data["zps_pi_r"][1]),
          added |-> TRUE, outcome |-> Returned]

\* event_page(), lines 304-309: a page is the stream's first when the count
\* just incremented is 1; then frame stack 0 is the dark reference.
StartFrom(count) == IF count = 1 THEN 1 ELSE 0

\* event_page(), lines 304-314: a page of the primary stream; count is
\* self._stream_count[doc['descriptor']] after line 279.
PagePrimary(doc, count) ==
    LET images == doc.data[image_field]
        start_from == StartFrom(count)
    IN IF count = 1 /\ images = <<>>
       THEN [file |-> output_file, stamps |-> image_timestamps,
             outcome |-> Raised("IndexError", 305)]
       ELSE LET darked == IF count = 1
                          THEN DictSet(output_file, DATA_DARK, np_mean(images[1]))
                          ELSE output_file
                rows == AppendImages(darked[DATA], From(images, start_from),
                                     chunk_size)
            IN [file |-> DictSet(darked, DATA, rows),
                stamps |-> image_timestamps
                             \o From(doc.timestamps[image_field], start_from),
                outcome |-> Returned]

Serializer_event_page(doc) ==
    /\ SerializerReady
    /\ Started
    /\ doc.descriptor \in declared
    /\ LET uid == doc.descriptor
           \* line 279, on a defaultdict whose default is 0
           counted == (IF Has(stream_count, uid) THEN stream_count[uid] ELSE 0) + 1
       IN /\ stream_count' = DictSet(stream_count, uid, counted)
          /\ produced' = [produced EXCEPT ![KindOf(uid)] =
                             @ + Len(doc.timestamps[CHOOSE f \in DOMAIN doc.timestamps : TRUE])]
          /\ IF ~baseline_added /\ uid = Get(descriptor_uids, "baseline")
             THEN LET r == PageBaseline(doc)
                  IN /\ output_file' = r.file
                     /\ baseline_added' = r.added
                     /\ Delivered("event_page", r.outcome)
                     /\ UNCHANGED <<buffered_thetas, theta_timestamps,
                                    image_timestamps>>
             ELSE IF uid = Get(descriptor_uids, "primary")
             THEN LET r == PagePrimary(doc, counted)
                  IN /\ output_file' = r.file
                     /\ image_timestamps' = r.stamps
                     /\ Delivered("event_page", r.outcome)
                     /\ UNCHANGED <<baseline_added, buffered_thetas,
                                    theta_timestamps>>
             ELSE IF uid = Get(descriptor_uids, "zps_pi_r_monitor")
             THEN /\ buffered_thetas' = buffered_thetas \o doc.data["zps_pi_r"]
                  /\ theta_timestamps' = theta_timestamps \o doc.timestamps["zps_pi_r"]
                  /\ UNCHANGED <<output_file, baseline_added, image_timestamps>>
                  /\ Delivered("event_page", Returned)
             ELSE /\ UNCHANGED <<output_file, baseline_added, buffered_thetas,
                                 theta_timestamps, image_timestamps>>
                  /\ Delivered("event_page", Returned)
    /\ UNCHANGED <<chunk_size, descriptor_uids, img_shape, declared>>

\* A stop() that averages the dataset's first chunk (dataset[:chunk_size]).
WhiteAvg_first_chunk(rows, c) ==
    np_mean(SubSeq(rows, 1, IF c > Len(rows) THEN Len(rows) ELSE c))

\* stop(), lines 323-324: the mean of the dataset's last chunk_size rows.
WhiteAvg(rows, c) == np_mean(LastN(rows, c))

\* A stop() that drops the white chunk alone.
TrimmedRows_one_chunk(rows, c) == Len(rows) - c

\* stop(), line 328: the number of rows the dataset is resized to.
TrimmedRows(rows, c) == Len(rows) - 2 * c

\* stop(), lines 323-336, for a file that holds /exchange/data.  Line 334
\* reads self._buffered_theta, an attribute no method sets (the buffer is
\* _buffered_thetas), so a stop that gets that far raises AttributeError
\* before np.interp is called and before line 336.
StopFinalize ==
    LET rows == output_file[DATA]
        whited == DictSet(output_file, DATA_DARK, WhiteAvg(rows, chunk_size))
        n == TrimmedRows(rows, chunk_size)
    IN IF n < 0
       THEN \* h5py cannot set a negative extent
            [file |-> whited, stamps |-> image_timestamps,
             outcome |-> Raised("OverflowError", 328)]
       ELSE [file |-> DictSet(whited, DATA, SubSeq(rows, 1, n)),
             stamps |-> DropLastN(image_timestamps, 2 * chunk_size),
             outcome |-> Raised("AttributeError", 331)]

\* A stop() that returns quietly when the file holds no /exchange/data.
StopResult_quiet ==
    IF ~Has(output_file, DATA)
    THEN [file |-> output_file, stamps |-> image_timestamps, outcome |-> Returned]
    ELSE StopFinalize

\* stop(), lines 322-336: line 322 looks /exchange/data up in the file.
StopResult ==
    IF ~Has(output_file, DATA)
    THEN [file |-> output_file, stamps |-> image_timestamps,
          outcome |-> Raised("KeyError", 322)]
    ELSE StopFinalize

Serializer_stop(doc) ==
    /\ SerializerReady
    /\ Started
    /\ LET r == StopResult
       IN /\ output_file' = r.file
          /\ image_timestamps' = r.stamps
          /\ Delivered("stop", r.outcome)
    /\ UNCHANGED <<chunk_size, descriptor_uids, img_shape, baseline_added,
                   stream_count, buffered_thetas, theta_timestamps, produced,
                   declared>>

StopDocs == {[run_start |-> "r1", exit_status |-> "success"]}

\* An __exit__ that ends with `return True`: the with statement swallows
\* the exception of its block.
ExitOutcome_swallowed(outcome) == Returned

\* __exit__, lines 190-191: the method returns None, so the with statement
\* re-raises the exception its block ended with, if any.
ExitOutcome(outcome) == outcome

\* close(), lines 174-178: one call of the Manager's close().
Serializer_close == manager_closes' = manager_closes + 1

\* The with block of export() (lines 83-85) and of the test script ends,
\* because the generator is exhausted or because a call raised, and
\* __exit__ runs: it calls close().
Serializer_exit ==
    /\ with_block = "inside"
    /\ MigrationIdle
    /\ with_block' = "exited"
    /\ Serializer_close
    /\ caller_raised' = ExitOutcome(s_raised)
    /\ UNCHANGED <<output_file, chunk_size, descriptor_uids, img_shape,
                   baseline_added, stream_count, buffered_thetas,
                   theta_timestamps, image_timestamps, s_name, s_raised,
                   s_calls, s_before, produced, declared, shrinks>>

SerializerNext ==
    \/ \E doc \in StartDocs : Serializer_start(doc)
    \/ \E doc \in ExporterDescriptors : Serializer_descriptor(doc)
    \/ \E uid \in DescriptorUids, k \in 0..MaxEvents :
          Serializer_event_page(PageOf(uid, k))
    \/ \E doc \in StopDocs : Serializer_stop(doc)
    \/ Serializer_exit

(* ------------------------------------------------------- specifications *)
Init == MigrationInit /\ SerializerInit

SpecMigration == Init /\ [][MigrationNext]_vars

SpecSerializer == Init /\ [][SerializerNext]_vars

(* ------------------------------------------------ claims on Migration *)
\* The shadow uids ever recorded for the original resource uid r.
ShadowsOf(r) == {p[2] : p \in {q \in minted : q[1] = r}}

\* The positions of `sent` holding a shadow resource of r.
ShadowResourcesSent(r) ==
    {i \in 1..Len(sent) :
        /\ sent[i][1] = "resource"
        /\ Has(sent[i][2], "uid")
        /\ sent[i][2]["uid"] \in ShadowsOf(r)}

\* C1: for every original resource uid processed, the serializer has
\* received exactly one shadow resource for it, the shadow's uid differs
\* from the original uid, and the mapping original uid -> shadow uid has
\* never held another value.
C1_OneStableShadowPerResource ==
    \A r \in DOMAIN new_res_uids :
        /\ Cardinality(ShadowResourcesSent(r)) = 1
        /\ new_res_uids[r] # r
        /\ ShadowsOf(r) = {new_res_uids[r]}

\* The last two documents the serializer received.
LastSent == sent[Len(sent)]
DerivedSent == sent[Len(sent) - 1]

\* C2: when a datum page of a registered resource has been handled, the
\* derived page sent to the serializer holds at position i (0-based) the
\* datum id '<shadow uid of the resource>/<i>', and the table maps every
\* original datum id of the page to that same id.
C2_DatumPageShadowIds ==
    (m_name = "datum_page" /\ m_raised = "none") =>
        LET ids == m_arrived.datum_id
            shadow == new_res_uids[m_arrived.resource]
            derived == DerivedSent
        IN /\ derived[1] = "datum_page"
           /\ Len(derived[2].datum_id) = Len(ids)
           /\ \A i \in 1..Len(ids) :
                /\ derived[2].datum_id[i] = shadow \o "/" \o ToString(i - 1)
                /\ Has(new_datum_ids, ids[i])
                /\ new_datum_ids[ids[i]] = derived[2].datum_id[i]

\* C2's case: resource 'abc' became U1 and a two-entry page of it was
\* rewritten to U1/0, U1/1.
C2_Witness ==
    /\ m_name = "datum_page" /\ m_raised = "none"
    /\ m_arrived.datum_id = <<"abc/0", "abc/1">>
    /\ Len(sent) >= 2
    /\ DerivedSent[2].datum_id = <<"U1/0", "U1/1">>

\* C3: when an event whose tracked image field holds a recorded datum id d
\* has been handled, its shadow field equals the shadow datum id recorded
\* for d, and the document the serializer received is that event as mutated.
C3_EventGetsShadowId ==
    (/\ m_name = "event" /\ m_raised = "none"
     /\ Has(m_arrived.data, image_field)) =>
        LET d == m_arrived.data[image_field]
        IN /\ Has(new_datum_ids, d)
           /\ Has(m_doc.data, timestamp_field)
           /\ m_doc.data[timestamp_field] = new_datum_ids[d]
           /\ m_doc.data[image_field] = d
           /\ LastSent = <<"event", m_doc>>

\* C3's case: resource 'abc' -> U1, page ['abc/0', 'abc/1'], then the event
\* holding 'abc/0' carries 'U1/0'.
C3_Witness ==
    /\ m_name = "event" /\ m_raised = "none"
    /\ Has(m_arrived.data, image_field)
    /\ m_arrived.data[image_field] = "abc/0"
    /\ Has(new_res_uids, "abc") /\ new_res_uids["abc"] = "U1"
    /\ Has(m_doc.data, timestamp_field)
    /\ m_doc.data[timestamp_field] = "U1/0"
    /\ LastSent[2].data[timestamp_field] = "U1/0"

\* C4: when an event_page whose tracked image field is present and whose
\* datum ids are all recorded has been handled, no error was raised, every
\* entry carries under the shadow field the derived id of its datum id, and
\* the page has been forwarded to the serializer.
C4_EventPageAnnotated ==
    (/\ m_name = "event_page"
     /\ Has(m_arrived.data, image_field)
     /\ \A i \in 1..Len(m_arrived.data[image_field]) :
           Has(new_datum_ids, m_arrived.data[image_field][i])) =>
        /\ m_raised = "none"
        /\ Has(m_doc.data, timestamp_field)
        /\ Len(m_doc.data[timestamp_field]) = Len(m_arrived.data[image_field])
        /\ \A i \in 1..Len(m_arrived.data[image_field]) :
              m_doc.data[timestamp_field][i] =
                  new_datum_ids[m_arrived.data[image_field][i]]
        /\ Len(sent) >= 1
        /\ LastSent = <<"event_page", m_doc>>

\* C5: a call that delivers an event whose tracked image field holds a
\* datum id the table does not hold ends with a lookup error; the event is
\* not annotated, nothing is sent to the serializer, and both tables are
\* unchanged.
C5_UnknownDatumFails ==
    [][(/\ m_calls' = m_calls + 1
        /\ m_name' = "event"
        /\ Has(m_arrived'.data, image_field)
        /\ ~Has(new_datum_ids, m_arrived'.data[image_field])) =>
           /\ m_raised' = "KeyError"
           /\ m_doc' = m_arrived'
           /\ ~Has(m_doc'.data, timestamp_field)
           /\ sent' = sent
           /\ new_res_uids' = new_res_uids
           /\ new_datum_ids' = new_datum_ids]_mvars

\* C5's case: an event names 'abc/1' after a page recorded only 'abc/0'.
C5_Witness ==
    /\ m_name = "event" /\ m_raised = "KeyError"
    /\ m_arrived.data[image_field] = "abc/1"
    /\ DOMAIN new_datum_ids = {"abc/0"}
    /\ ~Has(m_doc.data, timestamp_field)

\* C6: a call that handles a resource or a datum_page without error sends
\* the serializer exactly two documents: one derived document of the same
\* type, then the original, whose content is what it was on arrival.
C6_OneDerivedPlusOriginal ==
    [][(/\ m_calls' = m_calls + 1
        /\ m_name' \in {"resource", "datum_page"}
        /\ m_raised' = "none") =>
           /\ Len(sent') = Len(sent) + 2
           /\ SubSeq(sent', 1, Len(sent)) = sent
           /\ sent'[Len(sent) + 1][1] = m_name'
           /\ sent'[Len(sent) + 2] = <<m_name', m_arrived'>>
           /\ m_doc' = m_arrived'
           /\ (m_name' = "resource" =>
                 /\ sent'[Len(sent) + 1][2] # m_arrived'
                 /\ sent'[Len(sent) + 1][2]["uid"] = new_res_uids'[m_arrived'["uid"]])]_mvars

\* C6's case: a resource and a datum page were both duplicated, and the
\* originals arrived at the serializer as delivered.
C6_Witness ==
    /\ m_name = "datum_page" /\ m_raised = "none"
    /\ Len(sent) = 4
    /\ sent[1][1] = "resource" /\ sent[1][2]["uid"] = "U1"
    /\ sent[2] = <<"resource", [uid |-> "abc", spec |-> "AD_HDF5", root |-> "/data"]>>
    /\ sent[3][1] = "datum_page" /\ sent[3][2] # m_arrived
    /\ sent[4] = <<"datum_page", m_arrived>>

\* C12: at every point of a run of resource and datum_page documents, no
\* two distinct original datum ids are mapped to the same shadow datum id.
C12_ShadowDatumsInjective ==
    \A d, e \in DOMAIN new_datum_ids :
        new_datum_ids[d] = new_datum_ids[e] => d = e

\* C16: a call that delivers a datum page whose resource uid is not in the
\* resource table ends with a lookup error at that document; neither a
\* derived page nor the original is sent to the serializer, and both
\* tables are unchanged.
C16_UnknownResourceFails ==
    [][(/\ m_calls' = m_calls + 1
        /\ m_name' = "datum_page"
        /\ ~Has(new_res_uids, m_arrived'.resource)) =>
           /\ m_raised' = "KeyError"
           /\ m_doc' = m_arrived'
           /\ sent' = sent
           /\ new_res_uids' = new_res_uids
           /\ new_datum_ids' = new_datum_ids]_mvars

\* C16's case: resource 'abc' is registered and has a page, then a page of
\* the unregistered resource 'def' arrives.
C16_Witness ==
    /\ m_name = "datum_page" /\ m_raised = "KeyError"
    /\ m_arrived.resource = "def"
    /\ DOMAIN new_res_uids = {"abc"}
    /\ new_datum_ids # <<>>
    /\ Len(sent) = 4
    /\ LastSent[1] = "datum_page" /\ LastSent[2].resource = "abc"

\* The shadow datum id `id` is '<u>/<i>' for the uid u of a derived
\* resource among the first n documents the serializer received.
OwnedByEmittedResource(id, n) ==
    \E j \in 1..n, i \in 0..(MaxPage - 1) :
        /\ sent[j][1] = "resource"
        /\ sent[j][2]["spec"] = "AD_HDF5_TS"
        /\ Has(sent[j][2], "uid")
        /\ id = sent[j][2]["uid"] \o "/" \o ToString(i)

\* C17: every datum id of a derived datum page the serializer received is
\* '<u>/<i>' with u the uid of a derived resource it received earlier, and
\* every shadow datum id in the table is '<u>/<i>' with u the uid of a
\* derived resource already sent.
C17_ShadowDatumAfterShadowResource ==
    /\ \A n \in 1..Len(sent) :
          (sent[n][1] = "datum_page" /\ sent[n][2] \notin DatumPageDocs) =>
              \A k \in 1..Len(sent[n][2].datum_id) :
                  OwnedByEmittedResource(sent[n][2].datum_id[k], n - 1)
    /\ \A d \in DOMAIN new_datum_ids :
          OwnedByEmittedResource(new_datum_ids[d], Len(sent))

\* C17's case: resources 'abc' and 'def' were shadowed as U1 and U2, and a
\* two-entry page of 'def' was then derived with ids U2/0 and U2/1.
C17_Witness ==
    /\ m_name = "datum_page" /\ m_raised = "none"
    /\ m_arrived.resource = "def"
    /\ Len(sent) = 6
    /\ sent[1][2]["uid"] = "U1"
    /\ sent[3][2]["uid"] = "U2"
    /\ sent[5] = <<"datum_page", [resource |-> "def", datum_id |-> <<"U2/0", "U2/1">>]>>
    /\ new_datum_ids = [d \in DatumIds |-> IF d = "abc/0" THEN "U2/0" ELSE "U2/1"]

\* The number of resource and datum_page documents among the first i
\* inputs: each of them put one derived document into the stream.
RECURSIVE Duplicated(_)
Duplicated(i) ==
    IF i = 0 THEN 0
    ELSE Duplicated(i - 1)
           + (IF m_inputs[i][1] \in {"resource", "datum_page"} THEN 1 ELSE 0)

\* copy is a derived document of the input (name, doc): the resource with
\* a shadow uid recorded for it and the new spec, or the datum page with
\* the ids '<shadow uid>/<position>'.
IsDerivedOf(copy, name, doc) ==
    /\ copy[1] = name
    /\ IF name = "resource"
       THEN /\ <<doc["uid"], copy[2]["uid"]>> \in minted
            /\ copy[2] = DictSet(DictSet(doc, "uid", copy[2]["uid"]),
                                 "spec", "AD_HDF5_TS")
       ELSE /\ copy[2].resource = doc.resource
            /\ Len(copy[2].datum_id) = Len(doc.datum_id)
            /\ \E u \in ShadowsOf(doc.resource) :
                  \A k \in 1..Len(doc.datum_id) :
                      copy[2].datum_id[k] = u \o "/" \o ToString(k - 1)

\* C20: while no call has raised, the stream the serializer received is
\* the input sequence in its order, every input exactly once, with one
\* derived document right before each resource and each datum page and
\* nothing else in between.
C20_OutputOrder ==
    m_raised = "none" =>
        /\ Len(sent) = Len(m_inputs) + Duplicated(Len(m_inputs))
        /\ \A i \in 1..Len(m_inputs) :
              /\ sent[i + Duplicated(i)] = m_inputs[i]
              /\ m_inputs[i][1] \in {"resource", "datum_page"} =>
                    IsDerivedOf(sent[i + Duplicated(i) - 1],
                                m_inputs[i][1], m_inputs[i][2])

\* C20's case: a descriptor, a resource, a page of it and an event reached
\* the serializer as six documents.
C20_Witness ==
    /\ m_raised = "none"
    /\ Len(m_inputs) = 4
    /\ m_inputs[1][1] = "descriptor"
    /\ m_inputs[2][1] = "resource"
    /\ m_inputs[3][1] = "datum_page" /\ m_inputs[3][2].datum_id # <<>>
    /\ m_inputs[4][1] = "event"
    /\ Has(m_inputs[4][2].data, timestamp_field)
    /\ Len(sent) = 6
    /\ sent[5] = m_inputs[3]
    /\ sent[6] = m_inputs[4]

(* ----------------------------------------------- claims on Serializer *)
\* The run has reached stop after a primary descriptor created the arrays.
StoppedWithPrimary ==
    /\ s_name = "stop"
    /\ Has(descriptor_uids, "primary")
    /\ Has(output_file, DATA)

\* C7, as claimed: after start(chunk_size = c), a primary descriptor,
\* primary event pages carrying F >= 3 frames in total, and stop, the row
\* count of /exchange/data is F - 3.
C7_RowsAreFramesMinusThree ==
    (StoppedWithPrimary /\ produced.primary >= 3) =>
        Len(output_file[DATA]) = produced.primary - 3

\* C7, amended: after such a run the row count of /exchange/data is
\* (F - 3) * c, F >= 3 being the number of events (stacks of c frames) the
\* primary pages carried: every event but the first grew the array by c
\* rows and stop removed 2c rows.
C7_RowsAreChunksOfEventsMinusThree ==
    (StoppedWithPrimary /\ produced.primary >= 3) =>
        /\ Len(output_file[DATA]) = (produced.primary - 3) * chunk_size
        /\ Len(s_before[DATA]) = (produced.primary - 1) * chunk_size

\* C7's case: chunk_size 2 and four primary events leave 2 rows, not 1.
C7_Witness ==
    /\ StoppedWithPrimary
    /\ chunk_size = 2
    /\ produced.primary = 4
    /\ Len(s_before[DATA]) = 6
    /\ Len(output_file[DATA]) = 2

\* C8: once stop has been handled in a run whose main array held at least
\* chunk_size rows, /exchange/data_dark is the unweighted mean of the last
\* chunk_size rows the array held before the trim.
C8_WhiteSupersedesDark ==
    (StoppedWithPrimary /\ Len(s_before[DATA]) >= chunk_size) =>
        LET rows == s_before[DATA]
            white == [j \in 1..chunk_size |-> rows[Len(rows) - chunk_size + j]]
            dark == output_file[DATA_DARK]
        IN /\ dark[2] > 0
           /\ dark[1] * chunk_size = SumSeq(white) * dark[2]

\* C8's case: with chunk_size 2 the first page wrote the mean 3/2 of the
\* dark stack (frames 1, 2); stop replaced it by 11/2, the mean of the last
\* two rows (frames 5, 6).
C8_Witness ==
    /\ StoppedWithPrimary
    /\ chunk_size = 2
    /\ s_before[DATA] = <<3, 4, 5, 6>>
    /\ s_before[DATA_DARK] = <<3, 2>>
    /\ output_file[DATA_DARK] = <<11, 2>>

\* C9: in a well-formed run (start, primary and monitor descriptors, at
\* least three stacks of primary frames, some monitor samples, then stop),
\* stop completes without error and has written the aligned series, one
\* value per retained frame, as /exchange/theta.
C9_StopFinalizes ==
    (/\ StoppedWithPrimary
     /\ Has(descriptor_uids, "zps_pi_r_monitor")
     /\ produced.primary >= 3
     /\ produced.monitor >= 1) =>
        /\ s_raised.exc = "none"
        /\ Has(output_file, THETA)
        /\ Len(output_file[THETA]) = Len(image_timestamps)

\* C10: a stop handled when no primary descriptor has been seen ends in an
\* error raised by stop; the file is as it was before the call (nothing
\* trimmed, no theta written) and the timestamp buffer is untouched.
C10_StopWithoutPrimaryFails ==
    (s_name = "stop" /\ ~Has(descriptor_uids, "primary")) =>
        /\ s_raised.exc # "none"
        /\ s_raised.line = 322
        /\ output_file = s_before
        /\ image_timestamps = <<>>

\* C10's case: a run with a monitor stream and samples but no primary
\* stream is stopped.
C10_Witness ==
    /\ s_name = "stop"
    /\ ~Has(descriptor_uids, "primary")
    /\ Has(descriptor_uids, "zps_pi_r_monitor")
    /\ buffered_thetas # <<>>
    /\ s_raised = Raised("KeyError", 322)
    /\ output_file[THETA] = <<>>

\* C11: while the with block is open the Manager's close() has not been
\* called; once the block has been left, after the last document or after
\* a call that raised, close() has been called exactly once and the caller
\* of the with statement receives the exception the block ended with.
C11_ClosedOnceOnExit ==
    /\ with_block = "inside" => manager_closes = 0 /\ caller_raised = Returned
    /\ with_block = "exited" => manager_closes = 1 /\ caller_raised = s_raised

\* C11's case: the first primary page carried no event, event_page raised
\* IndexError part-way through the stream, and the block was left.
C11_Witness ==
    /\ with_block = "exited"
    /\ s_name = "event_page"
    /\ s_raised = Raised("IndexError", 305)
    /\ manager_closes = 1
    /\ caller_raised.exc = "IndexError"

\* A step that delivers a start, a descriptor or an event page leaves
\* /exchange/data with at least the rows it had, and a step that leaves it
\* with fewer rows is the delivery of a stop document.
ShrinkOnlyByStop ==
    /\ (s_calls' = s_calls + 1 /\ s_name' # "stop")
          => RowCount(output_file') >= RowCount(output_file)
    /\ (RowCount(output_file') < RowCount(output_file))
          => (s_calls' = s_calls + 1 /\ s_name' = "stop")

\* C13: over the documents of one run the row count of /exchange/data
\* never decreases while starts, descriptors and event pages are handled,
\* only a stop document decreases it, and the number of calls that
\* decreased it is at most one.
C13_GrowsUntilStop == [](shrinks <= 1) /\ [][ShrinkOnlyByStop]_svars

\* C13's case: the array grew to six rows over two or more event pages of
\* stream p1, and stop cut it to two.
C13_Witness ==
    /\ s_name = "stop"
    /\ shrinks = 1
    /\ Has(stream_count, "p1") /\ stream_count["p1"] >= 2
    /\ RowCount(s_before) = 6
    /\ RowCount(output_file) = 2

\* self._stream_count[uid] on the defaultdict.
CountOf(counts, uid) == IF Has(counts, uid) THEN counts[uid] ELSE 0

\* What this step shows of the role an event page was handled under.  The
\* baseline role writes the four scalars while none is recorded and then
\* changes nothing; the primary role buffers one timestamp per event after
\* the dark one; the monitor role buffers one sample per event.
HandledAsBaseline ==
    IF baseline_added
    THEN UNCHANGED <<output_file, image_timestamps, buffered_thetas>>
    ELSE baseline_added' \/ s_raised' = Raised("IndexError", 282)

HandledAsPrimary(u) ==
    \/ s_raised' = Raised("IndexError", 305)
    \/ Len(image_timestamps') = Len(image_timestamps)
           + (produced'.primary - produced.primary)
           - (IF CountOf(stream_count, u) = 0 THEN 1 ELSE 0)

HandledAsMonitor ==
    Len(buffered_thetas') = Len(buffered_thetas)
                               + (produced'.monitor - produced.monitor)

\* C14: every event page of a descriptor uid u that was classified as
\* baseline, primary or monitor when it was declared is handled under that
\* role, whatever descriptors were declared between u and the page.
C14_RoleFixedPerStream ==
    [][\A u \in declared :
          (/\ s_calls' = s_calls + 1
           /\ s_name' = "event_page"
           /\ CountOf(stream_count', u) = CountOf(stream_count, u) + 1) =>
              CASE KindOf(u) = "baseline" -> HandledAsBaseline
                [] KindOf(u) = "primary" -> HandledAsPrimary(u)
                [] KindOf(u) = "monitor" -> HandledAsMonitor
                [] OTHER -> TRUE]_svars

\* The readings at index 0 of the first baseline event the producer emits
\* (PageOf numbers the baseline readings from 1).
FirstBaselineReadings ==
    [x_ini |-> 101, y_ini |-> 102, z_ini |-> 103, r_ini |-> 104]

\* The scalars in the file are those of the first baseline event, and all
\* four are there once baseline is marked as recorded.
BaselineFromFirstBatch ==
    \A f \in DOMAIN FirstBaselineReadings :
        /\ Has(output_file, f) => output_file[f] = FirstBaselineReadings[f]
        /\ baseline_added => Has(output_file, f)

\* A step never rewrites a scalar, and a page of a baseline stream that
\* arrives when baseline is recorded changes neither the file nor a buffer.
LaterBaselineIgnored ==
    /\ \A f \in DOMAIN FirstBaselineReadings :
          Has(output_file, f) =>
              (Has(output_file', f) /\ output_file'[f] = output_file[f])
    /\ \A u \in declared :
          (/\ s_calls' = s_calls + 1
           /\ s_name' = "event_page"
           /\ CountOf(stream_count', u) = CountOf(stream_count, u) + 1
           /\ KindOf(u) = "baseline"
           /\ baseline_added) =>
              /\ s_raised' = Returned
              /\ UNCHANGED <<output_file, baseline_added, buffered_thetas,
                             theta_timestamps, image_timestamps>>

\* C15: x_ini, y_ini, z_ini and r_ini are written once, from index 0 of
\* the first event page of a baseline stream, and every later page of a
\* baseline stream leaves the file and the in-memory buffers unchanged.
C15_BaselineFirstWins == []BaselineFromFirstBatch /\ [][LaterBaselineIgnored]_svars

\* C18: a call that handles a monitor descriptor (the one that sets the
\* 'zps_pi_r_monitor' entry of _descriptor_uids) returns with the same set
\* of datasets in the file as before it: it only records the role.
C18_MonitorDescriptorAllocatesNothing ==
    [][(/\ s_calls' = s_calls + 1
        /\ s_name' = "descriptor"
        /\ Get(descriptor_uids', "zps_pi_r_monitor")
              # Get(descriptor_uids, "zps_pi_r_monitor")) =>
           /\ s_raised' = Returned
           /\ DOMAIN output_file' = DOMAIN output_file]_svars

\* C19: once stop has trimmed the main array and the primary timestamp
\* buffer (lines 328-329), the buffer holds as many timestamps as
\* /exchange/data has rows.
C19_TimestampsFollowTrim ==
    (StoppedWithPrimary /\ s_raised.line > 329) =>
        Len(image_timestamps) = RowCount(output_file)

====
